---- MODULE Spec2Model ----
(***************************************************************************)
(* Model of the privacy-policy discovery crawler of                        *)
(* backend/src/services/gemini-analyzer.ts (class PolicyScraper, the       *)
(* second declaration of the file, lines 730-1875):                        *)
(*   findPrivacyPolicyUrl  (discover)        SpecDiscover                  *)
(*   batchFindPrivacyPolicies (batchDiscover) SpecBatch                    *)
(*   scrapePrivacyPolicy   (scrape)          SpecScrape                    *)
(*   validatePrivacyPolicyContent, validatePrivacyContent, normalizeUrl      *)
(*                         (the helpers)     SpecHelpers                   *)
(* and of src/background/index.ts:                                         *)
(*   BackgroundService (site data, opt-out)  SpecBackground                *)
(*   LRUCache                                SpecCache                     *)
(*                                                                         *)
(* A URL string is the pair <<hostname, path>>; a string that `new URL`    *)
(* rejects is the 1-tuple <<"junk">>; null is the empty tuple.  A text is  *)
(* the record of its length and of the phrases that occur in it.  The web  *)
(* is an oracle: a request to a host of FreeHosts may get any response, a  *)
(* request to a host of Web gets the response Web fixes for it.            *)
(***************************************************************************)
EXTENDS Integers, Sequences, FiniteSets, TLC

VARIABLES
  baseUrls,   \* batchFindPrivacyPolicies: the argument (a sequence of base URLs)
  inv,        \* one record per findPrivacyPolicyUrl invocation: its locals and position
  bpc,        \* batchFindPrivacyPolicies: position ("idle" when no batch runs)
  bi,         \* batchFindPrivacyPolicies: loop variable i
  results,    \* batchFindPrivacyPolicies: the Map results, as a set of <<key, value>> entries
  blog,       \* history: the dispatch and delay events of the batch
  sc,         \* scrapePrivacyPolicy: its locals and position
  fn,         \* a call of a helper (a validator, normalizeUrl): arguments and result
  bg,         \* BackgroundService: siteData, lruCache, the opt-out in progress
  lru         \* an LRUCache and the history of the operations on it

vars == <<baseUrls, inv, bpc, bi, results, blog, sc, fn, bg, lru>>

----------------------------------------------------------------------------
(* Bounds of the model *)

\* number of CRAWL_ROUTES entries the Route Prober iterates over
NumRoutes == 2
\* number of sitemap locations parseSitemap iterates over
NumSitemaps == 2
\* number of commonPaths entries tryFallbackPolicyDiscovery iterates over
NumFallback == 2
\* page budget of the crawl (MAX_PAGES_TO_CRAWL, 50 in the source)
MAX_PAGES_TO_CRAWL == 3
\* depth budget of the crawl (MAX_CRAWL_DEPTH, 3 in the source)
MAX_CRAWL_DEPTH == 2
\* number of base URLs handed to batchFindPrivacyPolicies
NumDomains == 4

----------------------------------------------------------------------------
(* URLs *)

Null == <<>>
Junk == <<"junk">>
IsUrl(u) == Len(u) = 2
Host(u) == u[1]
Path(u) == u[2]

\* new URL(path, baseUrl).toString() for a root-relative path
NewURL(path, base) == <<Host(base), path>>

\* the base URL string the caller passes, e.g. "https://a.test": it has no path
BaseOf(host) == <<host, "">>

\* a subsequence, in source order, of the catalog CRAWL_ROUTES
CRAWL_ROUTES == <<"/", "/legal/privacy", "/privacy", "/privacy-policy">>

\* a prefix of the list sitemapUrls of parseSitemap
sitemapUrls == <<"/sitemap.xml", "/sitemap_index.xml", "/sitemaps.xml", "/sitemap/sitemap.xml">>

\* a prefix of the list commonPaths of tryFallbackPolicyDiscovery
commonPaths == <<"/privacy-policy", "/privacy", "/legal/privacy", "/privacy.html">>

\* the paths of the model whose lowercased URL contains one of
\* 'privacy','policy','legal','terms','cookie','data-protection','gdpr','ccpa','compliance'
LikelyPrivacyPaths ==
  {"/legal/privacy", "/privacy", "/privacy-policy", "/privacy.html", "/blog/privacy-policy", "/terms"}

isLikelyPrivacyUrl(u) == IsUrl(u) /\ Path(u) \in LikelyPrivacyPaths

\* isValidPrivacyUrl: new URL(url) must parse and the path must contain none of
\* '/register','/contact','/careers','/jobs','/blog','/news','/press','/investors'
ExcludedPaths == {"/blog/privacy-policy", "/contact"}

isValidPrivacyUrl(u) == IsUrl(u) /\ Path(u) \notin ExcludedPaths

\* isCrawlableRoute: no skip route ('login','register','cart',...,'assets') in the
\* path, and an important route in it or at most 4 segments without '?' and '#'
SkipPaths == {"/login", "/assets/app.js"}

isCrawlableRoute(path) == path \notin SkipPaths

----------------------------------------------------------------------------
(* Anchors: an href is absolute ("abs": starts with 'http' and parses),     *)
(* root-relative ("rel") or starts with 'http' without parsing ("junk");    *)
(* normalizeUrl is also called with the empty string ("empty"), with the    *)
(* string "not a url" ("text") and with null ("null").  A string that is    *)
(* not a URL is the 1-tuple of its characters.                              *)

Href(kind, host, path) == [kind |-> kind, host |-> host, path |-> path]
Anchor(href, text) == [href |-> href, text |-> text]

\* the value of the argument href itself
HrefValue(href) ==
  CASE href.kind = "abs"   -> <<href.host, href.path>>
    [] href.kind = "junk"  -> Junk
    [] href.kind = "empty" -> <<"">>
    [] href.kind = "text"  -> <<"not a url">>
    [] href.kind = "null"  -> Null
    [] OTHER               -> <<href.path>>

\* new URL(href, baseUrl).toString() for an href that does not start with
\* 'http', against a base URL that parses and whose path has one segment at most
Resolve(href, base) ==
  CASE href.kind = "empty" -> <<Host(base), IF Path(base) = "" THEN "/" ELSE Path(base)>>
    [] href.kind = "text"  -> NewURL("/not%20a%20url", base)
    [] OTHER               -> NewURL(href.path, base)

\* the try block of normalizeUrl throws: href.startsWith of null, or new URL
\* with a base that does not parse
NormalizeThrows(href, base) ==
  \/ href.kind = "null"
  \/ href.kind \notin {"abs", "junk"} /\ ~IsUrl(base)

\* a catch block that returns null
normalizeUrlNullOnFailure(href, base) ==
  IF NormalizeThrows(href, base) THEN Null
  ELSE IF href.kind \in {"abs", "junk"} THEN HrefValue(href)
  ELSE Resolve(href, base)

normalizeUrl(href, base) ==
  IF NormalizeThrows(href, base) THEN HrefValue(href)
  ELSE IF href.kind \in {"abs", "junk"} THEN HrefValue(href)
  ELSE Resolve(href, base)

\* the anchor texts and href paths of the model in which a PRIVACY_KEYWORDS
\* entry occurs ('privacy policy', 'terms of service', ..., or its '-' / '_' form)
PrivacyTexts == {"privacy policy", "cookies"}
PrivacyHrefPaths == {"/privacy-policy", "/blog/privacy-policy"}

isPrivacyRelated(text, href) == text \in PrivacyTexts \/ href.path \in PrivacyHrefPaths

RECURSIVE Dedup(_)
\* Array.from(new Set(seq)): first occurrences, in insertion order
Dedup(seq) ==
  IF seq = <<>> THEN <<>>
  ELSE LET r == Dedup(SubSeq(seq, 1, Len(seq) - 1))
           x == seq[Len(seq)]
       IN IF \E i \in 1..Len(r) : r[i] = x THEN r ELSE Append(r, x)

Elems(seq) == {seq[i] : i \in 1..Len(seq)}

extractPrivacyLinks(page, currentUrl) ==
  LET ok(a) == /\ isPrivacyRelated(a.text, a.href)
               /\ isValidPrivacyUrl(normalizeUrl(a.href, currentUrl))
      kept == SelectSeq(page.anchors, ok)
  IN Dedup([i \in 1..Len(kept) |-> normalizeUrl(kept[i].href, currentUrl)])

\* a host test that lets the subdomains of the base domain through
SameSite(u, base) == Host(u) \in {Host(base), "sub." \o Host(base)}

\* `urlObj.hostname === baseHost`
SameHost(u, base) == Host(u) = Host(base)

extractCrawlableLinks(page, base, currentUrl) ==
  LET ok(a) == LET u == normalizeUrl(a.href, currentUrl)
               IN IsUrl(u) /\ SameHost(u, base) /\ isCrawlableRoute(Path(u))
      kept == SelectSeq(page.anchors, ok)
  IN Dedup([i \in 1..Len(kept) |-> normalizeUrl(kept[i].href, currentUrl)])

----------------------------------------------------------------------------
(* Texts and the two content validators *)

Text(len, has) == [len |-> len, has |-> has]

\* the indicator phrases that occur in a phrase as substrings
SubPhrases(p) ==
  CASE p = "privacy policy"         -> {"privacy policy", "privacy"}
    [] p = "cookies"                -> {"cookies", "cookie"}
    [] p = "information we collect" -> {"information we collect", "we collect"}
    [] OTHER                        -> {p}

Includes(t, indicator) == \E p \in t.has : indicator \in SubPhrases(p)

\* String.prototype.toLowerCase on a phrase and on a text
LowerPhrase(p) ==
  CASE p = "Privacy Policy" -> "privacy policy"
    [] p = "GDPR"           -> "gdpr"
    [] OTHER                -> p
toLowerCase(t) == Text(t.len, {LowerPhrase(p) : p \in t.has})

privacyIndicators ==
  {"personal information", "data collection", "privacy policy", "we collect",
   "your information", "data processing", "cookies", "third parties", "data sharing"}

\* the test validatePrivacyContent applies to the body text of a fetched page
HasPrivacyContent(t) ==
  LET text == toLowerCase(t)
  IN Cardinality({k \in privacyIndicators : Includes(text, k)}) >= 3 /\ text.len > 1000

requiredIndicators == {"personal information", "data collection", "privacy"}

optionalIndicators ==
  {"cookie", "third party", "data sharing", "we collect", "your information",
   "data processing", "personal data", "information we collect", "how we use",
   "data protection", "privacy policy", "gdpr", "ccpa", "consent"}

\* a validator that accepts a text of exactly 500 characters
validatePrivacyPolicyContentFrom500(t) ==
  LET lowerText == toLowerCase(t)
  IN /\ \E k \in requiredIndicators : Includes(lowerText, k)
     /\ Cardinality({k \in optionalIndicators : Includes(lowerText, k)}) >= 2
     /\ t.len >= 500

validatePrivacyPolicyContent(t) ==
  LET lowerText == toLowerCase(t)
      hasRequired == \E k \in requiredIndicators : Includes(lowerText, k)
      optionalCount == Cardinality({k \in optionalIndicators : Includes(lowerText, k)})
  IN hasRequired /\ optionalCount >= 2 /\ t.len > 500

----------------------------------------------------------------------------
(* The web *)

Page(text, anchors) == [ok |-> TRUE, text |-> text, anchors |-> anchors]
FetchFail == [ok |-> FALSE, text |-> Text(0, {}), anchors |-> <<>>]

PolicyText == Text(1200, {"privacy policy", "personal information", "cookies", "we collect"})
ShortPolicyText == Text(600, {"privacy policy", "personal information", "cookies", "we collect"})
PlainText == Text(1500, {"privacy"})

PolicyPage == Page(PolicyText, <<>>)
ShortPolicyPage == Page(ShortPolicyText, <<>>)
HomePage ==
  Page(PlainText, << Anchor(Href("rel", "", "/about"), "about us"),
                     Anchor(Href("rel", "", "/privacy-policy"), "privacy policy"),
                     Anchor(Href("rel", "", "/login"), "sign in") >>)
AboutPage ==
  Page(PlainText, << Anchor(Href("rel", "", "/"), "home"),
                     Anchor(Href("rel", "", "/help"), "help"),
                     Anchor(Href("abs", "sub.free.test", "/legal/privacy"), "privacy policy"),
                     Anchor(Href("junk", "", ""), "broken"),
                     Anchor(Href("rel", "", "/blog/privacy-policy"), "privacy policy") >>)
HelpPage ==
  Page(PlainText, << Anchor(Href("rel", "", "/about"), "about us"),
                     Anchor(Href("rel", "", "/terms"), "terms") >>)
LegalPage == Page(PlainText, << Anchor(Href("rel", "", "/help"), "help") >>)

\* inf.test: page number i links to the pages 2i and 2i+1, none of them a
\* privacy candidate; page 1 is the page of the base URL
NodePath(i) == IF i = 1 THEN "" ELSE "/n" \o ToString(i)
RECURSIVE Pow2(_)
Pow2(k) == IF k = 0 THEN 1 ELSE 2 * Pow2(k - 1)
\* the pages of inf.test within MAX_CRAWL_DEPTH links of the base URL
InfNodes == 1..(Pow2(MAX_CRAWL_DEPTH + 1) - 1)
InfPage(i) ==
  Page(PlainText, << Anchor(Href("rel", "", NodePath(2 * i)), "next"),
                     Anchor(Href("rel", "", NodePath(2 * i + 1)), "more") >>)

\* hub.test: the page of the base URL links to HubLinks pages of the site,
\* more than comprehensiveCrawl takes from one page; none of them answers
HubLinks == 12
HubPage ==
  Page(PlainText, [i \in 1..HubLinks |->
                     Anchor(Href("rel", "", "/h" \o ToString(i)), "section")])

\* the responses a GET may obtain from a host that answers arbitrarily
PageOutcomes ==
  {FetchFail, PolicyPage, ShortPolicyPage, HomePage, AboutPage, HelpPage, LegalPage}

\* the outcomes of a HEAD request: status 200, another status below 400, or a
\* rejected promise (status >= 400, timeout, DNS failure)
HeadOutcomes == {"200", "204", "err"}

\* robots.txt: the request fails, or the body has the given lines.  A line is
\* the record of whether it mentions privacy/policy/legal/terms, of the match of
\* /https?:\/\/[^\s]+/ (Null if none) and of the match of /\/[^\s]+/ resolved
\* against the base URL (Null if none).
RobotsLine(mentions, urlMatch, pathMatch) ==
  [mentions |-> mentions, urlMatch |-> urlMatch, pathMatch |-> pathMatch]
RobotsFail == [ok |-> FALSE, lines |-> <<>>]
RobotsBody(lines) == [ok |-> TRUE, lines |-> lines]

\* "Disallow: /admin", "Disallow: /privacy", "# policy: https://<host>/legal/privacy"
RobotsOutcomes(base) ==
  { RobotsFail,
    RobotsBody(<< RobotsLine(FALSE, Null, NewURL("/admin", base)) >>),
    RobotsBody(<< RobotsLine(FALSE, Null, NewURL("/admin", base)),
                  RobotsLine(TRUE, Null, NewURL("/privacy", base)) >>),
    RobotsBody(<< RobotsLine(TRUE, NewURL("/legal/privacy", base),
                             NewURL("/legal/privacy", base)) >>) }

\* a sitemap: the request fails, or the document has the given <loc> values
SitemapFail == [ok |-> FALSE, locs |-> <<>>]
SitemapDoc(locs) == [ok |-> TRUE, locs |-> locs]

SitemapOutcomes(base) ==
  { SitemapFail,
    SitemapDoc(<<>>),
    SitemapDoc(<< NewURL("/about", base), NewURL("/privacy", base) >>),
    SitemapDoc(<< NewURL("/terms", base), NewURL("/privacy-policy", base) >>) }

\* hosts that answer every request arbitrarily
FreeHosts == {"free.test", "sub.free.test"}

\* a.test has a policy that the Route Prober finds; b.test has a home page that
\* links to a policy page too short to validate; c.test answers nothing at all;
\* d.test lists its policy in the sitemap only; inf.test answers page requests
\* only; e.test answers page requests only, its page /about is broken and its
\* policy is linked from /terms; hub.test answers the request for its home
\* page only
Web ==
  [h \in {"a.test", "b.test", "c.test", "d.test", "e.test", "inf.test", "hub.test"} |->
     CASE h = "a.test" ->
            [head200 |-> {"/", "/legal/privacy"}, curl200 |-> {},
             pages |-> [p \in {"", "/", "/legal/privacy"} |->
                          IF p = "/legal/privacy" THEN PolicyPage ELSE HomePage],
             robots |-> RobotsFail,
             sitemaps |-> <<SitemapFail, SitemapFail, SitemapFail, SitemapFail>>]
       [] h = "b.test" ->
            [head200 |-> {"/"}, curl200 |-> {},
             pages |-> [p \in {"", "/", "/about", "/privacy-policy"} |->
                          CASE p = "/about" -> HelpPage
                            [] p = "/privacy-policy" -> ShortPolicyPage
                            [] OTHER -> HomePage],
             robots |-> RobotsBody(<< RobotsLine(FALSE, Null, <<"b.test", "/admin">>) >>),
             sitemaps |-> <<SitemapDoc(<<>>), SitemapFail, SitemapFail, SitemapFail>>]
       [] h = "c.test" ->
            [head200 |-> {}, curl200 |-> {},
             pages |-> [p \in {} |-> FetchFail],
             robots |-> RobotsFail,
             sitemaps |-> <<SitemapFail, SitemapFail, SitemapFail, SitemapFail>>]
       [] h = "e.test" ->
            [head200 |-> {}, curl200 |-> {},
             pages |-> [p \in {"", "/terms", "/privacy-policy"} |->
                          CASE p = "" -> HelpPage
                            [] p = "/terms" -> HomePage
                            [] OTHER -> PolicyPage],
             robots |-> RobotsFail,
             sitemaps |-> <<SitemapFail, SitemapFail, SitemapFail, SitemapFail>>]
       [] h = "hub.test" ->
            [head200 |-> {}, curl200 |-> {},
             pages |-> [p \in {""} |-> HubPage],
             robots |-> RobotsFail,
             sitemaps |-> <<SitemapFail, SitemapFail, SitemapFail, SitemapFail>>]
       [] h = "inf.test" ->
            [head200 |-> {}, curl200 |-> {},
             pages |-> [p \in {NodePath(i) : i \in InfNodes} |->
                          InfPage(CHOOSE i \in InfNodes : NodePath(i) = p)],
             robots |-> RobotsFail,
             sitemaps |-> <<SitemapFail, SitemapFail, SitemapFail, SitemapFail>>]
       [] OTHER ->
            [head200 |-> {}, curl200 |-> {"/privacy"},
             pages |-> [p \in {"", "/privacy"} |->
                          IF p = "/privacy" THEN PolicyPage ELSE HelpPage],
             robots |-> RobotsFail,
             sitemaps |-> <<SitemapFail, SitemapDoc(<< <<"d.test", "/privacy">> >>),
                            SitemapFail, SitemapFail>>] ]

\* axios.head(testUrl, browser headers, validateStatus: status < 400)
HeadResp(u) ==
  IF Host(u) \in FreeHosts THEN HeadOutcomes
  ELSE IF Host(u) \in DOMAIN Web /\ Path(u) \in Web[Host(u)].head200 THEN {"200"} ELSE {"err"}

\* axios.head(testUrl, 'curl/7.68.0'): TRUE when the status is 200
CurlHeadResp(u) ==
  IF Host(u) \in FreeHosts THEN BOOLEAN
  ELSE {Host(u) \in DOMAIN Web /\ Path(u) \in Web[Host(u)].curl200}

\* axios.get(url) followed by cheerio.load
GetResp(u) ==
  IF ~IsUrl(u) THEN {FetchFail}
  ELSE IF Host(u) \in FreeHosts THEN PageOutcomes
  ELSE IF Host(u) \in DOMAIN Web /\ Path(u) \in DOMAIN Web[Host(u)].pages
       THEN {Web[Host(u)].pages[Path(u)]} ELSE {FetchFail}

RobotsResp(base) ==
  IF Host(base) \in FreeHosts THEN RobotsOutcomes(base)
  ELSE IF Host(base) \in DOMAIN Web THEN {Web[Host(base)].robots} ELSE {RobotsFail}

SitemapResp(base, k) ==
  IF Host(base) \in FreeHosts THEN SitemapOutcomes(base)
  ELSE IF Host(base) \in DOMAIN Web THEN {Web[Host(base)].sitemaps[k]} ELSE {SitemapFail}

\* validatePrivacyContent(url): the values the call may return
validatePrivacyContent(u) ==
  {p.ok /\ HasPrivacyContent(p.text) : p \in GetResp(u)}

\* `for (const testUrl of urls) if (await validatePrivacyContent(testUrl)) return ...`:
\* the index of the URL the loop may return at, 0 when it may run to its end
FirstHit(urls) ==
  {k \in 0..Len(urls) :
     /\ k > 0 => TRUE \in validatePrivacyContent(urls[k])
     /\ \A j \in 1..(IF k = 0 THEN Len(urls) ELSE k - 1) : FALSE \in validatePrivacyContent(urls[j])}

----------------------------------------------------------------------------
(* findPrivacyPolicyUrl: one record per invocation.                         *)
(*   pc            the strategy whose request is awaited, "idle" before the *)
(*                 call, "done" after the return, "settled" once the batch  *)
(*                 callback has stored the result                           *)
(*   k             the loop index of the running strategy                   *)
(*   foundUrls, crawledPages, toCrawl, crawledUrls                          *)
(*                 the locals of the running strategy                       *)
(*   result        the CrawlResult returned (method "none" before that)     *)
(*   log, validated, recorded, accPages, failed                             *)
(*                 history: the strategies started and returned, the URLs   *)
(*                 validatePrivacyContent accepted, the URLs the strategies *)
(*                 pushed to their foundUrls, the sum of their crawledPages,*)
(*                 the strategies in which a request was rejected           *)
(*   fetchLog      history: the URLs of the GET requests comprehensiveCrawl *)
(*                 issued, for pages and through validatePrivacyContent,    *)
(*                 in the order of the requests                             *)
(*   pageLog       history: the frontier entries whose page                 *)
(*                 comprehensiveCrawl requested, in the order of the        *)
(*                 requests, each with whether the request succeeded        *)
(*   runs          history: the objects comprehensiveCrawl returned to      *)
(*                 findPrivacyPolicyUrl                                     *)
(*   wire          history: what the running strategy, testDirectRoutes or  *)
(*                 comprehensiveCrawl, did on the network, in order: a      *)
(*                 route probe "head", a page fetch "get", a request of     *)
(*                 validatePrivacyContent "validate", an elapsed "delay"    *)
(*   probes        history: the routes the running testDirectRoutes probed, *)
(*                 kept when it returns a hit, in the order of the probes,  *)
(*                 each with the outcome of the HEAD request ("200", "204"  *)
(*                 for another status below 400, "err" for a rejection) and *)
(*                 what validatePrivacyContent answered ("na": not called)  *)

CrawlResult(url, foundUrls, crawledPages, method) ==
  [privacyPolicyUrl |-> url, foundUrls |-> foundUrls,
   crawledPages |-> crawledPages, method |-> method]

NoResult == CrawlResult(Null, <<>>, 0, "none")

Strategies == <<"direct", "robots", "sitemap", "crawl", "fallback">>

IdleInv(base) ==
  [pc |-> "idle", base |-> base, k |-> 1, foundUrls |-> <<>>, crawledPages |-> 0,
   toCrawl |-> <<>>, crawledUrls |-> {}, result |-> NoResult, threw |-> FALSE,
   log |-> <<>>, validated |-> {}, recorded |-> {}, accPages |-> 0, failed |-> {},
   fetchLog |-> <<>>, pageLog |-> <<>>, runs |-> <<>>, wire |-> <<>>, probes |-> <<>>]

Event(ev, m, hit) == [ev |-> ev, m |-> m, hit |-> hit]

\* the call of strategy m: its locals are fresh
Begin(s, m) ==
  [s EXCEPT !.pc = m, !.k = 1, !.foundUrls = <<>>, !.crawledPages = 0,
            !.toCrawl = IF m = "crawl" THEN <<[url |-> s.base, depth |-> 0]>> ELSE <<>>,
            !.crawledUrls = {}, !.wire = <<>>, !.probes = <<>>,
            !.log = Append(@, Event("start", m, Null))]

\* a pipeline that goes from the Route Prober straight to the sitemaps
NextStrategySkipRobots(m) ==
  CASE m = "direct"  -> "sitemap"
    [] m = "robots"  -> "sitemap"
    [] m = "sitemap" -> "crawl"
    [] OTHER         -> "fallback"

\* the strategy findPrivacyPolicyUrl calls when strategy m returned no hit
NextStrategy(m) ==
  CASE m = "direct"  -> "robots"
    [] m = "robots"  -> "sitemap"
    [] m = "sitemap" -> "crawl"
    [] OTHER         -> "fallback"

\* `return { ...strategyResult, method: m }`
TaggedResult(url, foundUrls, crawledPages, m) == CrawlResult(url, foundUrls, crawledPages, m)

\* strategy m returns {privacyPolicyUrl: url, foundUrls, crawledPages} to
\* findPrivacyPolicyUrl, which returns it if url is non-null and calls the next
\* strategy otherwise
Return(s, url, m) ==
  LET t == [s EXCEPT !.log = Append(@, Event("return", m, url)),
                     !.recorded = @ \cup Elems(s.foundUrls),
                     !.accPages = @ + s.crawledPages,
                     !.runs = IF m = "crawl"
                              THEN Append(@, CrawlResult(url, s.foundUrls, s.crawledPages, m))
                              ELSE @]
  IN IF url # Null
     THEN [t EXCEPT !.pc = "done",
                    !.result = TaggedResult(url, s.foundUrls, s.crawledPages, m)]
     ELSE Begin(t, NextStrategy(m))

\* the catch block of findPrivacyPolicyUrl
OuterCatch(s) ==
  [s EXCEPT !.pc = "done", !.result = CrawlResult(Null, <<>>, 0, "fallback"),
            !.log = Append(@, Event("catch", s.pc, Null))]

Validated(s, u) == [s EXCEPT !.validated = @ \cup {u}]
Fetched(s, urls) == [s EXCEPT !.fetchLog = @ \o urls]
Wire(s, events) == [s EXCEPT !.wire = @ \o events]
Requested(s, cur, ok) ==
  [s EXCEPT !.pageLog = Append(@, [url |-> cur.url, depth |-> cur.depth, ok |-> ok])]
Failed(s) == [s EXCEPT !.failed = @ \cup {s.pc}]
Probed(s, u, status, valid) ==
  [s EXCEPT !.probes = Append(@, [url |-> u, status |-> status, valid |-> valid])]

\* the first statements of findPrivacyPolicyUrl, up to the first request
StartInv(base) == Begin(IdleInv(base), "direct")

(* testDirectRoutes: one iteration of the loop over CRAWL_ROUTES *)

\* a catch block that gives up on the remaining routes
testDirectRoutesCatchStops(s) == Return(Failed(s), Null, "direct")

\* `catch { continue; }` of testDirectRoutes
testDirectRoutesCatch(s) ==
  IF s.k = NumRoutes THEN Return(Failed(s), Null, "direct")
  ELSE [Failed(s) EXCEPT !.k = s.k + 1]

testDirectRoutes(s) ==
  LET testUrl == NewURL(CRAWL_ROUTES[s.k], s.base)
      \* the 100 ms delay at the end of the try block, then the next iteration
      Cont(t) == IF s.k = NumRoutes THEN Return(Wire(t, <<"delay">>), Null, "direct")
                 ELSE [Wire(t, <<"delay">>) EXCEPT !.k = s.k + 1]
      probed == Wire(s, <<"head">>)
      pushed == [probed EXCEPT !.foundUrls = Append(@, testUrl), !.crawledPages = @ + 1]
  IN UNION {
       CASE h = "err" -> {testDirectRoutesCatch(Probed(probed, testUrl, h, "na"))}
         [] h = "204" -> {Cont(Probed(probed, testUrl, h, "na"))}
         [] OTHER ->
              IF isLikelyPrivacyUrl(testUrl)
              THEN {IF v THEN Return(Validated(Wire(Probed(pushed, testUrl, h, "yes"),
                                                    <<"validate">>), testUrl),
                                     testUrl, "direct")
                         ELSE Cont(Wire(Probed(pushed, testUrl, h, "no"), <<"validate">>))
                    : v \in validatePrivacyContent(testUrl)}
              ELSE {Cont(Probed(pushed, testUrl, h, "na"))}
       : h \in HeadResp(testUrl)}

(* parseRobotsTxt *)

RECURSIVE RobotsFound(_)
\* the URLs parseRobotsTxt pushes for the lines of robots.txt
RobotsFound(lines) ==
  IF lines = <<>> THEN <<>>
  ELSE LET l == Head(lines)
           u == IF l.mentions /\ l.urlMatch # Null THEN <<l.urlMatch>> ELSE <<>>
           p == IF l.mentions /\ l.pathMatch # Null THEN <<l.pathMatch>> ELSE <<>>
       IN u \o p \o RobotsFound(Tail(lines))

\* the outer `catch` of parseRobotsTxt
parseRobotsTxtCatch(s) == Return(Failed(s), Null, "robots")

parseRobotsTxt(s) ==
  UNION {
    IF ~r.ok THEN {parseRobotsTxtCatch(s)}
    ELSE LET found == RobotsFound(r.lines)
             t == [s EXCEPT !.foundUrls = found, !.crawledPages = 1]
         IN {IF j > 0 THEN Return(Validated(t, found[j]), found[j], "robots")
                      ELSE Return(t, Null, "robots") : j \in FirstHit(found)}
    : r \in RobotsResp(s.base)}

(* parseSitemap: one iteration of the loop over sitemapUrls *)

\* a missing try/catch around the sitemap request: the rejection reaches the
\* catch block of findPrivacyPolicyUrl
parseSitemapNoCatch(s) == OuterCatch(Failed(s))

\* `catch { continue; }` of parseSitemap
parseSitemapCatch(s) ==
  IF s.k = NumSitemaps THEN Return(Failed(s), Null, "sitemap")
  ELSE [Failed(s) EXCEPT !.k = s.k + 1]

parseSitemap(s) ==
  LET Cont(t) == IF s.k = NumSitemaps THEN Return(t, Null, "sitemap")
                 ELSE [t EXCEPT !.k = s.k + 1]
  IN UNION {
       IF ~r.ok THEN {parseSitemapCatch(s)}
       ELSE LET found == s.foundUrls \o SelectSeq(r.locs, isLikelyPrivacyUrl)
                t == [s EXCEPT !.foundUrls = found, !.crawledPages = @ + 1]
            IN {IF j > 0 THEN Return(Validated(t, found[j]), found[j], "sitemap")
                         ELSE Cont(t) : j \in FirstHit(found)}
       : r \in SitemapResp(s.base, s.k)}

(* comprehensiveCrawl: one iteration of the while loop *)

\* every link of the page is taken
SliceAll(seq) == seq

\* nextUrls.slice(0, 10)
Slice10(seq) == SubSeq(seq, 1, IF Len(seq) < 10 THEN Len(seq) ELSE 10)

\* links enqueued from a page at the depth limit too
MayEnqueueAtLimit(depth) == depth <= MAX_CRAWL_DEPTH

\* `if (depth < this.MAX_CRAWL_DEPTH)`: the links of the page are enqueued
MayEnqueue(depth) == depth < MAX_CRAWL_DEPTH

\* the statements after the while loop of comprehensiveCrawl
comprehensiveCrawlReturn(s) ==
  Return(s, IF s.foundUrls # <<>> THEN s.foundUrls[1] ELSE Null, "crawl")

\* a loop that goes on while crawledPages <= MAX_PAGES_TO_CRAWL
comprehensiveCrawlLoopOffByOne(t) ==
  IF t.toCrawl # <<>> /\ t.crawledPages <= MAX_PAGES_TO_CRAWL
  THEN t ELSE comprehensiveCrawlReturn(t)

\* the loop condition of comprehensiveCrawl, evaluated after an iteration
comprehensiveCrawlLoop(t) ==
  IF t.toCrawl # <<>> /\ t.crawledPages < MAX_PAGES_TO_CRAWL
  THEN t ELSE comprehensiveCrawlReturn(t)

\* the links of the page enqueued before its candidates are validated
HitLocalsEnqueued(validating, enqueued) == enqueued

\* the locals at the `return` of the validation loop (lines 1092-1103): the
\* statements that enqueue the links of the page come after it
HitLocals(validating, enqueued) == validating

\* every link is enqueued, visited or not
NotVisitedAlways(u, visited) == TRUE

\* `if (!crawledUrls.has(nextUrl))`
NotVisited(u, visited) == u \notin visited

\* a crawl that does not count the pages it requests
CountPageNever(c) == c

\* `crawledPages++`, before the page is requested
CountPage(c) == c + 1

\* a catch block that gives the crawl up
comprehensiveCrawlCatchStops(t) == comprehensiveCrawlReturn(Failed(t))

\* `catch (error) { ...; continue; }` of comprehensiveCrawl
comprehensiveCrawlCatch(t) == comprehensiveCrawlLoop(Failed(t))

\* a frontier served from its end
ShiftFromEnd(toCrawl) ==
  [cur |-> toCrawl[Len(toCrawl)], rest |-> SubSeq(toCrawl, 1, Len(toCrawl) - 1)]

\* toCrawl.shift(): the first entry, and the array it leaves
Shift(toCrawl) == [cur |-> Head(toCrawl), rest |-> Tail(toCrawl)]

comprehensiveCrawl(s) ==
  LET cur == Shift(s.toCrawl).cur
      After(t) == comprehensiveCrawlLoop(t)
      t0 == Wire(Fetched([s EXCEPT !.toCrawl = Shift(@).rest,
                                   !.crawledUrls = @ \cup {cur.url},
                                   !.crawledPages = CountPage(@)],
                         <<cur.url>>),
                 <<"get">>)
      Validates(k) == [i \in 1..k |-> "validate"]
  IN IF cur.url \in s.crawledUrls \/ cur.depth > MAX_CRAWL_DEPTH
     THEN {After([s EXCEPT !.toCrawl = Shift(@).rest])}
     ELSE UNION {
            IF ~p.ok THEN {comprehensiveCrawlCatch(Requested(t0, cur, FALSE))}
            ELSE LET priv == extractPrivacyLinks(p, cur.url)
                     t1 == [Requested(t0, cur, TRUE) EXCEPT !.foundUrls = @ \o priv]
                     fresh(u) == NotVisited(u, t0.crawledUrls)
                     nextUrls == IF MayEnqueue(cur.depth)
                                 THEN SelectSeq(Slice10(extractCrawlableLinks(p, s.base, cur.url)), fresh)
                                 ELSE <<>>
                     t2 == [t1 EXCEPT !.toCrawl =
                              @ \o [i \in 1..Len(nextUrls) |->
                                      [url |-> nextUrls[i], depth |-> cur.depth + 1]]]
                 IN {IF j > 0
                     THEN Return(Validated(Wire(Fetched(HitLocals(t1, t2), SubSeq(priv, 1, j)),
                                                Validates(j)),
                                           priv[j]),
                                 priv[j], "crawl")
                     ELSE After(Wire(Fetched(t2, priv), Validates(Len(priv)) \o <<"delay">>))
                     : j \in FirstHit(priv)}
            : p \in GetResp(cur.url)}

(* tryFallbackPolicyDiscovery: one iteration of the loop over commonPaths *)

\* a fallback result that leaves foundUrls empty
FallbackResultNoUrls(url) == CrawlResult(url, <<>>, 0, "fallback")

\* the object findPrivacyPolicyUrl returns after the fallback probe
FallbackResult(url) ==
  CrawlResult(url, IF url # Null THEN <<url>> ELSE <<>>, 0, "fallback")

FallbackReturn(s, url) ==
  [s EXCEPT !.pc = "done", !.result = FallbackResult(url),
            !.log = Append(@, Event("return", "fallback", url))]

\* `catch { continue; }` of tryFallbackPolicyDiscovery (a status other than 200
\* leaves the loop body the same way)
tryFallbackPolicyDiscoveryCatch(s) ==
  IF s.k = NumFallback THEN FallbackReturn(Failed(s), Null)
  ELSE [Failed(s) EXCEPT !.k = s.k + 1]

tryFallbackPolicyDiscovery(s) ==
  LET testUrl == NewURL(commonPaths[s.k], s.base)
  IN {IF ok THEN FallbackReturn(s, testUrl) ELSE tryFallbackPolicyDiscoveryCatch(s)
      : ok \in CurlHeadResp(testUrl)}

\* crawledUrls as one set shared by all invocations
SharedLocals(n) ==
  [inv[n] EXCEPT !.crawledUrls = UNION {inv[m].crawledUrls : m \in DOMAIN inv}]

\* the locals of invocation n: every invocation has its own
LocalsOf(n) == inv[n]

\* the answer to the request invocation n awaits arrives
DirectProbe(n) ==
  /\ inv[n].pc = "direct"
  /\ \E t \in testDirectRoutes(LocalsOf(n)) : inv' = [inv EXCEPT ![n] = t]
  /\ UNCHANGED <<baseUrls, bpc, bi, results, blog, sc, fn, bg, lru>>

RobotsHarvest(n) ==
  /\ inv[n].pc = "robots"
  /\ \E t \in parseRobotsTxt(LocalsOf(n)) : inv' = [inv EXCEPT ![n] = t]
  /\ UNCHANGED <<baseUrls, bpc, bi, results, blog, sc, fn, bg, lru>>

SitemapHarvest(n) ==
  /\ inv[n].pc = "sitemap"
  /\ \E t \in parseSitemap(LocalsOf(n)) : inv' = [inv EXCEPT ![n] = t]
  /\ UNCHANGED <<baseUrls, bpc, bi, results, blog, sc, fn, bg, lru>>

CrawlPage(n) ==
  /\ inv[n].pc = "crawl"
  /\ \E t \in comprehensiveCrawl(LocalsOf(n)) : inv' = [inv EXCEPT ![n] = t]
  /\ UNCHANGED <<baseUrls, bpc, bi, results, blog, sc, fn, bg, lru>>

FallbackProbe(n) ==
  /\ inv[n].pc = "fallback"
  /\ \E t \in tryFallbackPolicyDiscovery(LocalsOf(n)) : inv' = [inv EXCEPT ![n] = t]
  /\ UNCHANGED <<baseUrls, bpc, bi, results, blog, sc, fn, bg, lru>>

----------------------------------------------------------------------------
(* src/background/index.ts, class LRUCache.  A JavaScript Map is the        *)
(* sequence of its entries in insertion order; `undefined` is the string    *)
(* "undefined".                                                             *)

Undefined == "undefined"

EntriesHas(m, k) == \E i \in 1..Len(m) : m[i].key = k
EntriesGet(m, k) ==
  IF EntriesHas(m, k) THEN m[CHOOSE i \in 1..Len(m) : m[i].key = k].value ELSE Undefined
EntriesDelete(m, k) == SelectSeq(m, LAMBDA e : e.key # k)
\* Map.prototype.set: an existing key keeps its place
EntriesSet(m, k, v) ==
  IF EntriesHas(m, k)
  THEN [i \in 1..Len(m) |-> IF m[i].key = k THEN [key |-> k, value |-> v] ELSE m[i]]
  ELSE Append(m, [key |-> k, value |-> v])
EntriesKeys(m) == [i \in 1..Len(m) |-> m[i].key]

\* new LRUCache(maxEntries)
NewLRUCache(maxEntries) == [maxEntries |-> maxEntries, map |-> <<>>]

\* a get that leaves the order of the entries alone
LRUGetNoTouch(c, k) == c

\* LRUCache.get: the cache after the call (a hit moves the entry to the end)
LRUGet(c, k) ==
  IF ~EntriesHas(c.map, k) THEN c
  ELSE [c EXCEPT !.map = EntriesSet(EntriesDelete(c.map, k), k, EntriesGet(c.map, k))]

\* LRUCache.get: the value returned
LRUGetValue(c, k) == EntriesGet(c.map, k)

\* LRUCache.set
LRUSet(c, k, v) ==
  LET m == IF EntriesHas(c.map, k) THEN EntriesDelete(c.map, k)
           ELSE IF Len(c.map) >= c.maxEntries
                THEN (IF c.map # <<>> THEN EntriesDelete(c.map, EntriesKeys(c.map)[1]) ELSE c.map)
                ELSE c.map
  IN [c EXCEPT !.map = EntriesSet(m, k, v)]

\* LRUCache.delete
LRUDelete(c, k) == [c EXCEPT !.map = EntriesDelete(c.map, k)]

\* the keys an LRUCache is used with, and the number of operations on it
NumKeys == 3
MaxCapacity == 2
MaxOps == 5
CacheKeys == {"k" \o ToString(i) : i \in 1..NumKeys}
CacheValues == {"v1", "v2"}

\* lru: the cache; history: the number of operations made, for each key
\* in the cache the number of the last get or set that succeeded on it
\* (lastUse) and of the set that inserted it (insertedAt), and the last
\* operation with the keys that left the cache in it and the key that had
\* been inserted first
NoOp == [name |-> "none", key |-> "", value |-> Undefined, evicted |-> {}, oldest |-> ""]

StartLru(maxEntries) ==
  [cache |-> NewLRUCache(maxEntries), ops |-> 0,
   lastUse |-> [k \in CacheKeys |-> 0], insertedAt |-> [k \in CacheKeys |-> 0], op |-> NoOp]

IdleLru == StartLru(1)

\* the state after an operation that turned the cache into c
LruAfter(c, name, k, v, used) ==
  LET before == Elems(EntriesKeys(lru.cache.map))
      after  == Elems(EntriesKeys(c.map))
      t      == lru.ops + 1
  IN [cache |-> c, ops |-> t,
      lastUse |-> [x \in CacheKeys |-> IF x \notin after THEN 0
                                       ELSE IF x = k /\ used THEN t ELSE lru.lastUse[x]],
      insertedAt |-> [x \in CacheKeys |-> IF x \notin after THEN 0
                                          ELSE IF x \notin before THEN t
                                          ELSE lru.insertedAt[x]],
      op |-> [name |-> name, key |-> k, value |-> v,
              evicted |-> before \ (after \cup (IF name = "delete" THEN {k} ELSE {})),
              oldest |-> IF before = {} THEN ""
                         ELSE CHOOSE x \in before :
                                \A y \in before : lru.insertedAt[x] <= lru.insertedAt[y]]]

----------------------------------------------------------------------------
(* src/background/index.ts, class BackgroundService: the site data, the     *)
(* cache in front of it and the opt-out.  SiteData objects live in bg.objs  *)
(* and are referred to by their index, so that the Map siteData and the     *)
(* LRUCache can hold the same object.                                       *)
(*   objs       the SiteData objects created so far                         *)
(*   siteData   the Map siteData: domain -> object                          *)
(*   lruCache   the LRUCache: domain -> {data: object, timestamp}           *)
(*   now        Date.now(), in units of 24 hours                            *)
(*   pc         performComprehensiveOptOut: "idle" before the call, the     *)
(*              promise awaited ("blocklist", "enhanced", "mark"), then     *)
(*              "success" or "failure" as returned                          *)
(*   resp       the last response of getSiteData: its trust score, when the *)
(*              tracker entries in it were recorded, and whether the        *)
(*              request came after the opt-out had returned success         *)
(* A tracker entry carries, as history, when it was recorded: "before" the  *)
(* call of the opt-out, "during" it or "after" its return.                  *)

Site == "site.test"
BgTrackers == {"ads.test", "cdn.test"}
MaxCount == 2
MaxDays == 1
MAX_TRACKERS_PER_SITE == 50
lruCacheEntries == 100

NewSiteData == [trustScore |-> "100", trackers |-> <<>>, flows |-> {}]
NoResp == [domain |-> "", eras |-> {}, trustScore |-> "", afterOptOut |-> FALSE]

IdleBg ==
  [objs |-> <<>>, siteData |-> <<>>, lruCache |-> NewLRUCache(lruCacheEntries),
   now |-> 0, pc |-> "idle", resp |-> NoResp]

initializeSiteDataForDomain(b, domain) ==
  IF EntriesHas(b.siteData, domain) THEN b
  ELSE [b EXCEPT !.objs = Append(@, NewSiteData),
                 !.siteData = EntriesSet(@, domain, Len(b.objs) + 1)]

\* initializeSiteData(url), for a URL of the domain
initializeSiteData(b, domain) == initializeSiteDataForDomain(b, domain)

Min(a, c) == IF a < c THEN a ELSE c

\* trackThirdPartyRequest(sourceDomain, trackerDomain, requestType); the
\* score TrustScoreCalculator computes is the string "calc"
trackThirdPartyRequest(b, sourceDomain, trackerDomain, era) ==
  LET b1 == initializeSiteDataForDomain(b, sourceDomain)
      id == EntriesGet(b1.siteData, sourceDomain)
      o  == b1.objs[id]
      existing == \E i \in 1..Len(o.trackers) : o.trackers[i].domain = trackerDomain
      counted == [i \in 1..Len(o.trackers) |->
                    IF o.trackers[i].domain = trackerDomain
                    THEN [o.trackers[i] EXCEPT !.count = Min(@ + 1, 1000)]
                    ELSE o.trackers[i]]
      pushed == Append(o.trackers, [domain |-> trackerDomain, count |-> 1, era |-> era])
  IN IF trackerDomain = sourceDomain THEN b1
     ELSE IF ~existing /\ Len(o.trackers) >= MAX_TRACKERS_PER_SITE THEN b1
     ELSE [b1 EXCEPT !.objs[id] = [trustScore |-> "calc",
                                   trackers |-> IF existing THEN counted ELSE pushed,
                                   flows |-> o.flows \cup {trackerDomain}]]

\* getSiteData(url), for a URL of the domain: the state after the call and
\* the object returned
getSiteData(b, domain) ==
  LET cached == EntriesHas(b.lruCache.map, domain)
      entry  == LRUGetValue(b.lruCache, domain)
      b0     == [b EXCEPT !.lruCache = LRUGet(@, domain)]
  IN IF cached /\ b.now - entry.timestamp < 1
     THEN [state |-> b0, data |-> entry.data]
     ELSE LET b1 == initializeSiteData(b0, domain)
              id == EntriesGet(b1.siteData, domain)
          IN [state |-> [b1 EXCEPT !.lruCache =
                                      LRUSet(@, domain, [data |-> id, timestamp |-> b.now])],
              data |-> id]

\* clearDomainTrackingData(domain); blockedRequests is never written and
\* stays empty
clearDomainTrackingData(b, domain) == [b EXCEPT !.siteData = EntriesDelete(@, domain)]

\* step 6 of performComprehensiveOptOut
resetSiteData(b, domain) ==
  IF EntriesHas(b.siteData, domain)
  THEN [b EXCEPT !.objs[EntriesGet(b.siteData, domain)].trustScore = "95",
                 !.objs[EntriesGet(b.siteData, domain)].trackers = <<>>]
  ELSE b

IdleScrape ==
  [pc |-> "idle", url |-> Null, attempt |-> 0, result |-> Text(0, {}), log |-> <<>>]

\* fn: op is the helper called, text / href, base its arguments, valid the
\* value of validatePrivacyPolicyContent, hit that of validatePrivacyContent's
\* test, url that of normalizeUrl, threw whether the call threw
IdleFn ==
  [pc |-> "idle", op |-> "none", text |-> Text(0, {}), href |-> Href("rel", "", ""),
   base |-> Null, valid |-> FALSE, hit |-> FALSE, url |-> Null, threw |-> FALSE]

\* findPrivacyPolicyUrl(baseUrl) called once, for any host of the model
DiscoverHosts == FreeHosts \cup DOMAIN Web

InitDiscover ==
  /\ \E h \in DiscoverHosts : inv = <<StartInv(BaseOf(h))>>
  /\ baseUrls = <<>>
  /\ bpc = "idle"
  /\ bi = 0
  /\ results = <<>>
  /\ blog = <<>>
  /\ sc = IdleScrape
  /\ fn = IdleFn
  /\ bg = IdleBg
  /\ lru = IdleLru

NextDiscover ==
  \/ DirectProbe(1)
  \/ RobotsHarvest(1)
  \/ SitemapHarvest(1)
  \/ CrawlPage(1)
  \/ FallbackProbe(1)

SpecDiscover == InitDiscover /\ [][NextDiscover]_vars

----------------------------------------------------------------------------
(* batchFindPrivacyPolicies *)

\* `const concurrent = 3`
concurrent == 3

\* a history entry: the dispatch of invocation n, with the invocations whose
\* callback had completed by then, or the end of a delay
BatchEvent(ev, n, settled) == [ev |-> ev, n |-> n, settled |-> settled]

Settled == {n \in DOMAIN inv : inv[n].pc = "settled"}

\* a slice that is one element short
GroupShort(i) == {n \in 1..Len(baseUrls) : i < n /\ n < i + concurrent}

\* the positions in baseUrls of baseUrls.slice(i, i + concurrent)
Group(i) == {n \in 1..Len(baseUrls) : i < n /\ n <= i + concurrent}

\* batch.map(async (baseUrl) => ...): every callback of the group runs up to
\* the first request of its findPrivacyPolicyUrl call
Dispatch(i, log) ==
  /\ inv' = [n \in DOMAIN inv |-> IF n \in Group(i) THEN StartInv(baseUrls[n]) ELSE inv[n]]
  /\ blog' = log \o [j \in 1..Cardinality(Group(i)) |-> BatchEvent("dispatch", i + j, Settled)]

\* results.set(key, value)
MapSet(map, key, value) ==
  [x \in DOMAIN map \cup {key} |-> IF x = key THEN value ELSE map[x]]

\* the value the callback stores: the awaited result, or the record of its
\* catch block when the await rejected
CallbackValue(s) ==
  IF s.threw THEN CrawlResult(Null, <<>>, 0, "fallback") ELSE s.result

\* Promise.race in the place of Promise.all
AnySettled(i) == \E n \in Group(i) : inv[n].pc = "settled"

\* Promise.all(batchPromises) is fulfilled
AllSettled(i) == \A n \in Group(i) : inv[n].pc = "settled"

\* the call: the first group is dispatched (an empty argument returns at once)
BatchStart ==
  /\ bpc = "call"
  /\ IF Len(baseUrls) = 0
     THEN bpc' = "done" /\ UNCHANGED <<inv, blog>>
     ELSE bpc' = "await" /\ Dispatch(0, blog)
  /\ UNCHANGED <<baseUrls, bi, results, sc, fn, bg, lru>>

\* the continuation of a callback after its findPrivacyPolicyUrl call returned
Settle(n) ==
  /\ bpc = "await"
  /\ inv[n].pc = "done"
  /\ results' = MapSet(results, baseUrls[n], CallbackValue(inv[n]))
  /\ inv' = [inv EXCEPT ![n].pc = "settled"]
  /\ UNCHANGED <<baseUrls, bpc, bi, blog, sc, fn, bg, lru>>

\* the continuation after `await Promise.all(batchPromises)`: the delay is
\* started if a group remains, the map is returned otherwise
BatchAwait ==
  /\ bpc = "await"
  /\ AllSettled(bi)
  /\ IF bi + concurrent < Len(baseUrls)
     THEN bpc' = "delay" /\ bi' = bi
     ELSE bpc' = "done" /\ bi' = bi + concurrent
  /\ UNCHANGED <<baseUrls, inv, results, blog, sc, fn, bg, lru>>

\* the 2000 ms timer fires: i += concurrent and the next group is dispatched
BatchDelay ==
  /\ bpc = "delay"
  /\ bi' = bi + concurrent
  /\ bpc' = "await"
  /\ Dispatch(bi + concurrent, Append(blog, BatchEvent("delay", 0, Settled)))
  /\ UNCHANGED <<baseUrls, results, sc, fn, bg, lru>>

\* the hosts of the batches of the model: their answers are fixed by Web
BatchHosts == {"a.test", "b.test", "c.test"}

RECURSIVE SeqsOf(_, _)
\* the sequences of length n over the set S
SeqsOf(S, n) ==
  IF n = 0 THEN {<<>>}
  ELSE {Append(q, x) : q \in SeqsOf(S, n - 1), x \in S}

InitBatch ==
  /\ baseUrls \in SeqsOf({BaseOf(h) : h \in BatchHosts}, NumDomains - 1)
                  \cup SeqsOf({BaseOf(h) : h \in BatchHosts}, NumDomains)
  /\ inv = [n \in 1..Len(baseUrls) |-> IdleInv(baseUrls[n])]
  /\ bpc = "call"
  /\ bi = 0
  /\ results = <<>>
  /\ blog = <<>>
  /\ sc = IdleScrape
  /\ fn = IdleFn
  /\ bg = IdleBg
  /\ lru = IdleLru

NextBatch ==
  \/ BatchStart
  \/ BatchAwait
  \/ BatchDelay
  \/ \E n \in DOMAIN inv :
       \/ Settle(n)
       \/ DirectProbe(n)
       \/ RobotsHarvest(n)
       \/ SitemapHarvest(n)
       \/ CrawlPage(n)
       \/ FallbackProbe(n)

SpecBatch == InitBatch /\ [][NextBatch]_vars

----------------------------------------------------------------------------
(* scrapePrivacyPolicy.  sc.attempt is the loop variable, sc.pc is "fetch"  *)
(* while attemptScrape is awaited, "wait" during the pause before a retry,  *)
(* "returned" / "thrown" at the end; sc.log is the history of the attempts  *)
(* made and of what each obtained.                                          *)

Content(t) == [kind |-> "content", text |-> t, err |-> ""]
Rejected(e) == [kind |-> "error", text |-> Text(0, {}), err |-> e]

\* what attemptScrape may extract from the page (result.text after cleanText)
ScrapeTexts ==
  { Text(0, {}),
    Text(150, {"privacy policy", "cookies"}),
    Text(300, {"privacy policy", "cookies"}),
    Text(600, {"privacy"}),
    Text(600, {"privacy policy", "cookies", "we collect"}) }

\* how attemptScrape may fail: a 4xx status (its own `HTTP <status>` error),
\* a 503 (the message quotes the URL), a timeout (the axios message)
ScrapeErrors == {"http403", "http404", "http429", "http503", "timeout"}

AttemptOutcomes == {Content(t) : t \in ScrapeTexts} \cup {Rejected(e) : e \in ScrapeErrors}

\* the URLs scrape is called with, and those whose string contains '403' or '404'
ScrapeUrls == {<<"free.test", "/privacy">>, <<"free.test", "/docs/4041/privacy">>}
UrlsWith40x == {<<"free.test", "/docs/4041/privacy">>}

\* attemptError.message.includes('404') || attemptError.message.includes('403')
IsPermanentError(e, url) ==
  \/ e \in {"http403", "http404"}
  \/ e = "http503" /\ url \in UrlsWith40x

\* acceptance on length alone
IsAcceptedByLength(t) == t.len > 200

\* the test under which an attempt's result is returned as the policy
IsAccepted(t) == t.len > 200 /\ validatePrivacyPolicyContent(t)

\* one iteration of the loop of scrapePrivacyPolicy, on the outcome o of
\* attemptScrape(url, attempt)
scrapePrivacyPolicy(s, o) ==
  LET t == [s EXCEPT !.log = Append(@, [attempt |-> s.attempt, o |-> o])]
      next == [t EXCEPT !.attempt = s.attempt + 1]
  IN IF o.kind = "error"
     THEN IF IsPermanentError(o.err, s.url) \/ s.attempt = 4
          THEN [t EXCEPT !.pc = "thrown"]
          ELSE [t EXCEPT !.pc = "wait"]
     ELSE IF IsAccepted(o.text)
          THEN [t EXCEPT !.pc = "returned", !.result = o.text]
          ELSE IF o.text.len > 200 /\ s.attempt < 4
               THEN next
               ELSE IF s.attempt = 4 /\ o.text.len > 100
                    THEN [t EXCEPT !.pc = "returned", !.result = o.text]
                    ELSE IF s.attempt < 4 THEN next
                         ELSE [t EXCEPT !.pc = "thrown"]

\* attemptScrape settles
ScrapeAttempt ==
  /\ sc.pc = "fetch"
  /\ \E o \in AttemptOutcomes : sc' = scrapePrivacyPolicy(sc, o)
  /\ UNCHANGED <<baseUrls, inv, bpc, bi, results, blog, fn, bg, lru>>

\* the pause of 1000 * attempt ms ends: the next attempt is made
ScrapeRetry ==
  /\ sc.pc = "wait"
  /\ sc' = [sc EXCEPT !.pc = "fetch", !.attempt = @ + 1]
  /\ UNCHANGED <<baseUrls, inv, bpc, bi, results, blog, fn, bg, lru>>

InitScrape ==
  /\ \E u \in ScrapeUrls : sc = [IdleScrape EXCEPT !.pc = "fetch", !.url = u, !.attempt = 1]
  /\ baseUrls = <<>>
  /\ inv = <<>>
  /\ bpc = "idle"
  /\ bi = 0
  /\ results = <<>>
  /\ blog = <<>>
  /\ fn = IdleFn
  /\ bg = IdleBg
  /\ lru = IdleLru

NextScrape == ScrapeAttempt \/ ScrapeRetry

SpecScrape == InitScrape /\ [][NextScrape]_vars

----------------------------------------------------------------------------
(* The helpers, called on their own *)

\* the texts the validators are called with
Phrases ==
  {"Privacy Policy", "personal information", "cookies", "we collect", "third parties", "GDPR"}
TextLengths == {0, 500, 501, 1000, 1001}
ValidatorTexts == {Text(l, P) : l \in TextLengths, P \in SUBSET Phrases}

\* the arguments normalizeUrl is called with; the base URL may fail to parse
NormalizeHrefs ==
  { Href("empty", "", ""), Href("text", "", ""), Href("null", "", ""),
    Href("rel", "", "/about"), Href("abs", "b.test", "/privacy"), Href("junk", "", "") }
NormalizeBases == {BaseOf("a.test"), <<"a.test", "/about">>, Junk}

\* both validators applied to the same text: validatePrivacyPolicyContent(text),
\* and the test validatePrivacyContent applies to a page whose body has that text
ValidateText ==
  /\ fn.pc = "call" /\ fn.op = "validate"
  /\ fn' = [fn EXCEPT !.pc = "done",
                      !.valid = validatePrivacyPolicyContent(fn.text),
                      !.hit = HasPrivacyContent(fn.text)]
  /\ UNCHANGED <<baseUrls, inv, bpc, bi, results, blog, sc, bg, lru>>

\* normalizeUrl(href, baseUrl): its body is one try statement whose catch
\* block returns, so the call returns a value
NormalizeCall ==
  /\ fn.pc = "call" /\ fn.op = "normalizeUrl"
  /\ fn' = [fn EXCEPT !.pc = "done", !.url = normalizeUrl(fn.href, fn.base),
                      !.threw = FALSE]
  /\ UNCHANGED <<baseUrls, inv, bpc, bi, results, blog, sc, bg, lru>>

InitHelpers ==
  /\ fn \in {[IdleFn EXCEPT !.pc = "call", !.op = "validate", !.text = t]
                : t \in ValidatorTexts}
            \cup {[IdleFn EXCEPT !.pc = "call", !.op = "normalizeUrl", !.href = h, !.base = b]
                   : h \in NormalizeHrefs, b \in NormalizeBases}
  /\ baseUrls = <<>>
  /\ inv = <<>>
  /\ bpc = "idle"
  /\ bi = 0
  /\ results = <<>>
  /\ blog = <<>>
  /\ sc = IdleScrape
  /\ bg = IdleBg
  /\ lru = IdleLru

NextHelpers == ValidateText \/ NormalizeCall

SpecHelpers == InitHelpers /\ [][NextHelpers]_vars

----------------------------------------------------------------------------
(* BackgroundService: the webRequest listener, the getSiteData message and  *)
(* performComprehensiveOptOut, one step per await                           *)

Era == CASE bg.pc = "idle" -> "before"
         [] bg.pc \in {"success", "failure"} -> "after"
         [] OTHER -> "during"

BgUnchanged == UNCHANGED <<baseUrls, inv, bpc, bi, results, blog, sc, fn, lru>>

\* chrome.webRequest.onBeforeRequest: a request of the site to another host
ThirdPartyRequest(t) ==
  /\ \A i \in 1..Len(bg.objs) : \A j \in 1..Len(bg.objs[i].trackers) :
       bg.objs[i].trackers[j].domain = t => bg.objs[i].trackers[j].count < MaxCount
  /\ bg' = trackThirdPartyRequest(bg, Site, t, Era)
  /\ BgUnchanged

\* the message getSiteData and its response
GetSiteData ==
  /\ LET r == getSiteData(bg, Site)
     IN bg' = [r.state EXCEPT !.resp = [domain |-> Site,
                                        eras |-> {e.era : e \in Elems(r.state.objs[r.data].trackers)},
                                        trustScore |-> r.state.objs[r.data].trustScore,
                                        afterOptOut |-> bg.pc = "success"]]
  /\ BgUnchanged

\* the message performOptOut: up to `await this.addDomainToBlockList(domain)`
OptOutCall ==
  /\ bg.pc = "idle"
  /\ bg' = [bg EXCEPT !.pc = "blocklist"]
  /\ BgUnchanged

\* step 2, up to `await this.enableEnhancedBlockingForDomain(domain)`
OptOutClear ==
  /\ bg.pc = "blocklist"
  /\ bg' = [clearDomainTrackingData(bg, Site) EXCEPT !.pc = "enhanced"]
  /\ BgUnchanged

\* step 4, up to `await chrome.storage.local.set(...)`
OptOutEnhanced ==
  /\ bg.pc = "enhanced"
  /\ bg' = [bg EXCEPT !.pc = "mark"]
  /\ BgUnchanged

\* step 6 and the return, or the catch block when the storage call rejects
OptOutMark ==
  /\ bg.pc = "mark"
  /\ \/ bg' = [resetSiteData(bg, Site) EXCEPT !.pc = "success"]
     \/ bg' = [bg EXCEPT !.pc = "failure"]
  /\ BgUnchanged

\* 24 hours pass
DayPasses ==
  /\ bg.now < MaxDays
  /\ bg' = [bg EXCEPT !.now = @ + 1]
  /\ BgUnchanged

InitBackground ==
  /\ bg = IdleBg
  /\ lru = IdleLru
  /\ baseUrls = <<>>
  /\ inv = <<>>
  /\ bpc = "idle"
  /\ bi = 0
  /\ results = <<>>
  /\ blog = <<>>
  /\ sc = IdleScrape
  /\ fn = IdleFn

NextBackground ==
  \/ \E t \in BgTrackers : ThirdPartyRequest(t)
  \/ GetSiteData
  \/ OptOutCall
  \/ OptOutClear
  \/ OptOutEnhanced
  \/ OptOutMark
  \/ DayPasses

SpecBackground == InitBackground /\ [][NextBackground]_vars

----------------------------------------------------------------------------
(* LRUCache: get, set and delete on a cache that starts empty *)

LruUnchanged == UNCHANGED <<baseUrls, inv, bpc, bi, results, blog, sc, fn, bg>>

CacheGet(k) ==
  /\ lru.ops < MaxOps
  /\ lru' = LruAfter(LRUGet(lru.cache, k), "get", k, LRUGetValue(lru.cache, k),
                     EntriesHas(lru.cache.map, k))
  /\ LruUnchanged

CacheSet(k, v) ==
  /\ lru.ops < MaxOps
  /\ lru' = LruAfter(LRUSet(lru.cache, k, v), "set", k, v, TRUE)
  /\ LruUnchanged

CacheDelete(k) ==
  /\ lru.ops < MaxOps
  /\ lru' = LruAfter(LRUDelete(lru.cache, k), "delete", k, Undefined, FALSE)
  /\ LruUnchanged

InitCache ==
  /\ \E n \in 1..MaxCapacity : lru = StartLru(n)
  /\ bg = IdleBg
  /\ baseUrls = <<>>
  /\ inv = <<>>
  /\ bpc = "idle"
  /\ bi = 0
  /\ results = <<>>
  /\ blog = <<>>
  /\ sc = IdleScrape
  /\ fn = IdleFn

NextCache ==
  \/ \E k \in CacheKeys : CacheGet(k)
  \/ \E k \in CacheKeys, v \in CacheValues : CacheSet(k, v)
  \/ \E k \in CacheKeys : CacheDelete(k)

SpecCache == InitCache /\ [][NextCache]_vars

----------------------------------------------------------------------------
(* Properties of findPrivacyPolicyUrl *)

Returned(n) == inv[n].pc \in {"done", "settled"}
Hit(n) == inv[n].result.privacyPolicyUrl
StartsOf(n) == SelectSeq(inv[n].log, LAMBDA e : e.ev = "start")
StrategyIndex(m) == CHOOSE i \in 1..Len(Strategies) : Strategies[i] = m

\* C1: a non-null privacyPolicyUrl of a returned result is a URL whose content
\* validatePrivacyContent fetched and accepted during the same attempt.
C1_HitWasValidated ==
  \A n \in DOMAIN inv :
    Returned(n) /\ Hit(n) # Null => Hit(n) \in inv[n].validated

\* C2: a non-null privacyPolicyUrl of a returned result is an element of the
\* foundUrls of the same result.
C2_HitInFoundUrls ==
  \A n \in DOMAIN inv :
    Returned(n) /\ Hit(n) # Null => Hit(n) \in Elems(inv[n].result.foundUrls)

C2_Witness ==
  \E n \in DOMAIN inv :
    /\ Returned(n) /\ Hit(n) # Null
    /\ inv[n].result.method = "fallback"

\* C3: the strategies start in the order direct, robots, sitemap, crawl,
\* fallback; each starts only after every earlier one returned without a hit;
\* none starts after a hit; the method of a result with a hit is the strategy
\* whose return produced that hit.
C3_StrategyOrder ==
  \A n \in DOMAIN inv :
    LET log == inv[n].log
        st == StartsOf(n)
    IN /\ Len(st) <= Len(Strategies)
       /\ \A i \in 1..Len(st) : st[i].m = Strategies[i]
       /\ \A p \in 1..Len(log) :
            log[p].ev = "start" =>
              \A j \in 1..(StrategyIndex(log[p].m) - 1) :
                \E q \in 1..(p - 1) : log[q] = Event("return", Strategies[j], Null)
       /\ \A p \in 1..Len(log) :
            log[p].ev = "return" /\ log[p].hit # Null => p = Len(log)
       /\ Returned(n) /\ Hit(n) # Null =>
            log[Len(log)] = Event("return", inv[n].result.method, Hit(n))

C3_Witness ==
  \E n \in DOMAIN inv :
    /\ Returned(n) /\ Hit(n) # Null
    /\ inv[n].result.method = "sitemap"
    /\ Len(StartsOf(n)) = 3

\* C4: when every strategy returned without a hit, the result has a null
\* privacyPolicyUrl and method 'fallback', its foundUrls holds every URL the
\* strategies recorded and its crawledPages is the sum of what they fetched.
C4_ExhaustedAccumulates ==
  \A n \in DOMAIN inv :
    Returned(n) /\ Hit(n) = Null =>
      /\ inv[n].result.method = "fallback"
      /\ inv[n].recorded \subseteq Elems(inv[n].result.foundUrls)
      /\ inv[n].result.crawledPages = inv[n].accPages

\* C5: findPrivacyPolicyUrl returns a CrawlResult whatever fails, no rejection
\* reaches its own catch block, and a result without a hit is returned only
\* after all five strategies were started.
C5_NeverThrows ==
  \A n \in DOMAIN inv :
    /\ inv[n].pc \in {"idle", "done", "settled"} \cup Elems(Strategies)
    /\ \A p \in 1..Len(inv[n].log) : inv[n].log[p].ev # "catch"
    /\ Returned(n) =>
         /\ inv[n].result.method \in Elems(Strategies)
         /\ Hit(n) = Null => Len(StartsOf(n)) = Len(Strategies)

C5_Witness ==
  \E n \in DOMAIN inv :
    /\ Returned(n)
    /\ {"direct", "robots", "sitemap", "crawl"} \subseteq inv[n].failed
    /\ inv[n].result.method = "fallback"

----------------------------------------------------------------------------
(* Properties of batchFindPrivacyPolicies *)

\* the step of the strategy an invocation is in
DiscoverStep(s) ==
  CASE s.pc = "direct"  -> testDirectRoutes(s)
    [] s.pc = "robots"  -> parseRobotsTxt(s)
    [] s.pc = "sitemap" -> parseSitemap(s)
    [] s.pc = "crawl"   -> comprehensiveCrawl(s)
    [] OTHER            -> tryFallbackPolicyDiscovery(s)

RECURSIVE RunAlone(_)
\* an invocation run to its end with nothing else going on
RunAlone(s) ==
  IF s.pc = "done" THEN s ELSE RunAlone(CHOOSE t \in DiscoverStep(s) : TRUE)

\* the result of findPrivacyPolicyUrl run alone, per host of the batches
AloneResult == [h \in BatchHosts |-> RunAlone(StartInv(BaseOf(h))).result]

InFlight == {n \in DOMAIN inv : inv[n].pc \in Elems(Strategies)}
GroupOf(n) == (n - 1) \div 3
EarlierDelays(p) == Cardinality({q \in 1..(p - 1) : blog[q].ev = "delay"})

C7_BoundedGroups ==
  /\ Cardinality(InFlight) <= 3
  /\ \A p \in 1..Len(blog) :
       blog[p].ev = "dispatch" =>
         /\ \A m \in DOMAIN inv :
              GroupOf(m) < GroupOf(blog[p].n) =>
                m \in blog[p].settled
         /\ EarlierDelays(p) = GroupOf(blog[p].n)

C7_Witness ==
  /\ \E p \in 1..Len(blog) : blog[p].ev = "delay"
  /\ \E n \in InFlight : GroupOf(n) = 1
  /\ \A m \in DOMAIN inv : GroupOf(m) = 0 => inv[m].pc = "settled"

\* C8: whatever the interleaving of the invocations of a group, each
\* invocation returns, and the map records, the result the invocation
\* returns when it runs alone against the same site.
C8_Independent ==
  \A n \in DOMAIN inv :
    /\ Returned(n) => inv[n].result = AloneResult[Host(baseUrls[n])]
    /\ inv[n].pc = "settled" => results[baseUrls[n]] = AloneResult[Host(baseUrls[n])]

C8_Witness ==
  \E n, m \in DOMAIN inv :
    /\ n # m /\ GroupOf(n) = GroupOf(m) /\ baseUrls[n] = baseUrls[m]
    /\ inv[n].pc = "settled" /\ inv[n].result.method = "crawl"
    /\ inv[m].pc = "crawl" /\ inv[m].crawledUrls # {}

----------------------------------------------------------------------------
(* Properties of scrapePrivacyPolicy *)

\* C9: the attempts are made in the order 1, 2, 3, 4, each at most once; an
\* attempt whose text is longer than 200 characters and passes
\* validatePrivacyPolicyContent is the last one and its text is returned;
\* before the fourth attempt nothing else is returned.
C9_ProfileOrder ==
  LET log == sc.log
      good(o) == o.kind = "content" /\ o.text.len > 200
                 /\ validatePrivacyPolicyContent(o.text)
  IN /\ Len(log) <= 4
     /\ \A i \in 1..Len(log) : log[i].attempt = i
     /\ sc.pc \in {"fetch", "wait"} => sc.attempt = Len(log) + (IF sc.pc = "fetch" THEN 1 ELSE 0)
     /\ \A i \in 1..Len(log) :
          good(log[i].o) =>
            i = Len(log) /\ sc.pc = "returned" /\ sc.result = log[i].o.text
     /\ sc.pc = "returned" /\ Len(log) < 4 => good(log[Len(log)].o)

C9_Witness ==
  /\ sc.pc = "returned"
  /\ Len(sc.log) = 3
  /\ sc.log[1].o.kind = "error"
  /\ sc.log[2].o.kind = "content"
  /\ validatePrivacyPolicyContent(sc.result)

\* C10: scrape throws only after all four profiles have been attempted, also
\* when a profile failed with HTTP 403 or 404.
C10_ThrowsAfterAllProfiles ==
  sc.pc = "thrown" => Len(sc.log) = 4

\* C11: when no attempt obtained a text that passes validatePrivacyPolicyContent
\* and some attempt obtained a text of more than 100 characters, scrape returns
\* content and does not throw.
C11_PartialInsteadOfThrow ==
  LET log == sc.log
      valid(o) == o.kind = "content" /\ validatePrivacyPolicyContent(o.text)
      nonTrivial(o) == o.kind = "content" /\ o.text.len > 100
  IN sc.pc = "thrown" /\ (\A i \in 1..Len(log) : ~valid(log[i].o))
       => \A i \in 1..Len(log) : ~nonTrivial(log[i].o)

----------------------------------------------------------------------------
(* Properties of comprehensiveCrawl *)

\* the invocation is in its crawl run or has returned that run's result
InCrawlRun(n) ==
  \/ inv[n].pc = "crawl"
  \/ Returned(n) /\ inv[n].result.method = "crawl"

NoDuplicates(seq) == \A i, j \in 1..Len(seq) : seq[i] = seq[j] => i = j

\* C12: the GET requests of one crawl run, for pages and for the validation of
\* privacy candidates, never name the same URL twice, and their number is the
\* size of crawledUrls.
C12_NoUrlFetchedTwice ==
  \A n \in DOMAIN inv :
    InCrawlRun(n) =>
      /\ NoDuplicates(inv[n].fetchLog)
      /\ Len(inv[n].fetchLog) = Cardinality(inv[n].crawledUrls)

\* C13: every entry of the frontier toCrawl has a depth from 0 to
\* MAX_CRAWL_DEPTH, and every page the crawl requested was at such a depth.
C13_FrontierDepthBounded ==
  \A n \in DOMAIN inv :
    /\ \A i \in 1..Len(inv[n].toCrawl) :
         0 <= inv[n].toCrawl[i].depth /\ inv[n].toCrawl[i].depth <= MAX_CRAWL_DEPTH
    /\ \A i \in 1..Len(inv[n].pageLog) :
         0 <= inv[n].pageLog[i].depth /\ inv[n].pageLog[i].depth <= MAX_CRAWL_DEPTH

C13_Witness ==
  \E n \in DOMAIN inv :
    /\ \E i \in 1..Len(inv[n].pageLog) : inv[n].pageLog[i].depth = MAX_CRAWL_DEPTH
    /\ \E i \in 1..Len(inv[n].toCrawl) : inv[n].toCrawl[i].depth = MAX_CRAWL_DEPTH

\* the objects comprehensiveCrawl returned in invocation n
CrawlRuns(n) == SelectSeq(inv[n].runs, LAMBDA r : r.method = "crawl")

\* C14: a crawl run requests at most MAX_PAGES_TO_CRAWL pages, and no page
\* once that many were requested; on inf.test, where every page links to fresh
\* crawlable pages and none to a privacy candidate, the run returns after
\* exactly MAX_PAGES_TO_CRAWL page requests with privacyPolicyUrl null and
\* crawledPages = MAX_PAGES_TO_CRAWL.
C14_PageBudget ==
  \A n \in DOMAIN inv :
    /\ Len(inv[n].pageLog) <= MAX_PAGES_TO_CRAWL
    /\ inv[n].pc = "crawl" => Len(inv[n].pageLog) < MAX_PAGES_TO_CRAWL
    /\ Host(inv[n].base) = "inf.test" =>
         /\ Returned(n) => Len(CrawlRuns(n)) = 1
         /\ \A i \in 1..Len(CrawlRuns(n)) :
              /\ CrawlRuns(n)[i].privacyPolicyUrl = Null
              /\ CrawlRuns(n)[i].crawledPages = MAX_PAGES_TO_CRAWL
              /\ Len(inv[n].pageLog) = MAX_PAGES_TO_CRAWL

C14_Witness ==
  \E n \in DOMAIN inv :
    /\ Host(inv[n].base) = "inf.test"
    /\ Returned(n)
    /\ CrawlRuns(n) = <<CrawlResult(Null, <<>>, MAX_PAGES_TO_CRAWL, "crawl")>>
    /\ Len(inv[n].pageLog) = MAX_PAGES_TO_CRAWL

\* C15: a crawl run in which validatePrivacyContent accepted no candidate
\* returns privacyPolicyUrl null, also when its foundUrls is non-empty.
C15_FailureReturnsNull ==
  \A n \in DOMAIN inv :
    \A i \in 1..Len(CrawlRuns(n)) :
      CrawlRuns(n)[i].privacyPolicyUrl \notin inv[n].validated
        => CrawlRuns(n)[i].privacyPolicyUrl = Null

\* a step of invocation n in which a page request of the crawl loop failed
PageFetchFails(n) ==
  /\ Len(inv'[n].pageLog) = Len(inv[n].pageLog) + 1
  /\ ~inv'[n].pageLog[Len(inv'[n].pageLog)].ok

\* C16: a failed page request of the crawl loop reaches no catch block of
\* findPrivacyPolicyUrl and does not end the loop: while an entry is left and
\* the page budget is not used up the run goes on with the rest of the
\* frontier; foundUrls is what it was before the failure; on e.test, where the
\* page /about is broken, the policy linked from the page after it is still
\* validated and returned.
C16_FetchFailureContinues ==
  [][\A n \in DOMAIN inv :
       /\ PageFetchFails(n) =>
            /\ \A p \in 1..Len(inv'[n].log) : inv'[n].log[p].ev # "catch"
            /\ ~inv'[n].threw
            /\ Len(inv[n].toCrawl) > 1 /\ inv[n].crawledPages + 1 < MAX_PAGES_TO_CRAWL =>
                 /\ inv'[n].pc = "crawl"
                 /\ inv'[n].toCrawl = Tail(inv[n].toCrawl)
            /\ IF inv'[n].pc = "crawl"
               THEN inv'[n].foundUrls = inv[n].foundUrls
               ELSE inv'[n].runs[Len(inv'[n].runs)].foundUrls = inv[n].foundUrls
       /\ Host(inv'[n].base) = "e.test" /\ inv'[n].pc = "done" =>
            /\ inv'[n].result =
                 CrawlResult(<<"e.test", "/privacy-policy">>,
                             << <<"e.test", "/privacy-policy">> >>, 3, "crawl")
            /\ <<"e.test", "/privacy-policy">> \in inv'[n].validated
  ]_vars

C16_Witness ==
  \E n \in DOMAIN inv :
    /\ Host(inv[n].base) = "e.test"
    /\ Returned(n) /\ inv[n].result.method = "crawl" /\ Hit(n) \in inv[n].validated
    /\ \E i, j \in 1..Len(inv[n].pageLog) :
         i < j /\ ~inv[n].pageLog[i].ok /\ inv[n].pageLog[j].ok

----------------------------------------------------------------------------
(* Properties of the helpers *)

\* the indicator occurs in the lowercased text
OccursIn(t, k) == \E p \in t.has : k \in SubPhrases(LowerPhrase(p))

\* C17: validatePrivacyPolicyContent(text) is true if and only if the text has
\* more than 500 characters, a required indicator occurs in its lowercased form
\* and at least 2 distinct optional indicators occur in it; it is false for
\* every text of 500 characters or fewer.
C17_ContentValidator ==
  fn.pc = "done" /\ fn.op = "validate" =>
    /\ fn.valid <=>
         /\ fn.text.len > 500
         /\ \E k \in {"personal information", "data collection", "privacy"} :
              OccursIn(fn.text, k)
         /\ \E k1, k2 \in optionalIndicators :
              k1 # k2 /\ OccursIn(fn.text, k1) /\ OccursIn(fn.text, k2)
    /\ fn.text.len <= 500 => ~fn.valid

C17_Witness ==
  /\ fn.pc = "done" /\ fn.op = "validate"
  /\ fn.text = Text(501, {"Privacy Policy", "cookies"})
  /\ fn.valid

C19_SameValidator ==
  fn.pc = "done" /\ fn.op = "validate" => (fn.hit <=> fn.valid)

----------------------------------------------------------------------------
(* Order of validation and enqueuing in comprehensiveCrawl *)

\* C20: in the step of a crawl run in which a candidate of the page just
\* fetched validates, the run returns that candidate tagged 'crawl' at once:
\* none of the page's links has been enqueued, the validated candidate is the
\* last URL requested, and after the return no page is fetched, no candidate
\* validated and nothing enqueued.
C20_HitShortCircuits ==
  [][\A n \in DOMAIN inv :
       /\ inv[n].pc = "crawl" /\ inv'[n].validated # inv[n].validated =>
            /\ inv'[n].pc = "done"
            /\ inv'[n].result.method = "crawl"
            /\ inv'[n].validated = inv[n].validated \cup {inv'[n].result.privacyPolicyUrl}
            /\ inv'[n].toCrawl = Tail(inv[n].toCrawl)
            /\ Len(inv'[n].pageLog) = Len(inv[n].pageLog) + 1
            /\ inv'[n].fetchLog[Len(inv'[n].fetchLog)] = inv'[n].result.privacyPolicyUrl
            /\ inv'[n].result.foundUrls = inv'[n].foundUrls
       /\ Returned(n) =>
            /\ inv'[n].fetchLog = inv[n].fetchLog
            /\ inv'[n].pageLog = inv[n].pageLog
            /\ inv'[n].toCrawl = inv[n].toCrawl
            /\ inv'[n].validated = inv[n].validated
  ]_vars

C20_Witness ==
  \E n \in DOMAIN inv :
    /\ Returned(n) /\ inv[n].result.method = "crawl" /\ Hit(n) \in inv[n].validated
    /\ inv[n].pageLog = <<[url |-> inv[n].base, depth |-> 0, ok |-> TRUE]>>
    /\ inv[n].toCrawl = <<>>
    /\ inv[n].fetchLog = <<inv[n].base, Hit(n)>>

----------------------------------------------------------------------------
(* The frontier of comprehensiveCrawl *)

IsPrefix(p, q) == Len(p) <= Len(q) /\ SubSeq(q, 1, Len(p)) = p

\* C21: the page a crawl step requests is the entry at the head of the
\* frontier and the entries the step enqueues go to its end (FIFO); the depths
\* of the requested pages never decrease in the order of the requests, and no
\* entry waiting in the frontier is shallower than a page already requested.
C21_BreadthFirstOrder ==
  [][\A n \in DOMAIN inv :
       /\ inv[n].pc = "crawl" /\ inv'[n].pageLog # inv[n].pageLog =>
            LET last == inv'[n].pageLog[Len(inv'[n].pageLog)]
            IN /\ last.url = Head(inv[n].toCrawl).url
               /\ last.depth = Head(inv[n].toCrawl).depth
       /\ inv[n].pc = "crawl" /\ inv'[n].pc \in {"crawl", "done"} =>
            IsPrefix(Tail(inv[n].toCrawl), inv'[n].toCrawl)
       /\ \A i, j \in 1..Len(inv'[n].pageLog) :
            i <= j => inv'[n].pageLog[i].depth <= inv'[n].pageLog[j].depth
       /\ \A i \in 1..Len(inv'[n].pageLog) : \A j \in 1..Len(inv'[n].toCrawl) :
            inv'[n].pageLog[i].depth <= inv'[n].toCrawl[j].depth
  ]_vars

C21_Witness ==
  \E n \in DOMAIN inv :
    /\ inv[n].pc = "crawl"
    /\ Len(inv[n].pageLog) = 2
    /\ inv[n].pageLog[2].depth = 1
    /\ \E i, j \in 1..Len(inv[n].toCrawl) :
         inv[n].toCrawl[i].depth = 1 /\ inv[n].toCrawl[j].depth = 2

\* C22: in testDirectRoutes and in comprehensiveCrawl a delay elapses between
\* any two consecutive route probes and between any two consecutive page
\* fetches, whether the earlier request succeeded or failed.
C22_DelayBetweenRequests ==
  \A n \in DOMAIN inv :
    LET wire == inv[n].wire
    IN \A i, j \in 1..Len(wire) :
         i < j /\ wire[i] \in {"head", "get"} /\ wire[j] \in {"head", "get"} =>
           \E k \in (i + 1)..(j - 1) : wire[k] = "delay"

\* the return events of testDirectRoutes in the history of invocation n
DirectReturns(n) == SelectSeq(inv[n].log, LAMBDA e : e.ev = "return" /\ e.m = "direct")

\* the URLs of the probes whose HEAD request was answered with status 200
Urls200(P) == [i \in 1..Len(SelectSeq(P, LAMBDA p : p.status = "200")) |->
                 SelectSeq(P, LAMBDA p : p.status = "200")[i].url]

\* the probe found a privacy policy: status 200, a privacy-looking URL, and
\* content that validates
Qualifies(p) == p.status = "200" /\ isLikelyPrivacyUrl(p.url) /\ p.valid = "yes"

C24_FanOutCapped ==
  [][\A n \in DOMAIN inv :
       inv[n].pc = "crawl" /\ inv'[n].pc \in {"crawl", "done"} =>
         LET cur   == Head(inv[n].toCrawl)
             rest  == Tail(inv[n].toCrawl)
             added == SubSeq(inv'[n].toCrawl, Len(rest) + 1, Len(inv'[n].toCrawl))
         IN /\ IsPrefix(rest, inv'[n].toCrawl)
            /\ Len(added) <= 10
            /\ \A i \in 1..Len(added) : added[i].depth = cur.depth + 1
            /\ cur.depth >= MAX_CRAWL_DEPTH => added = <<>>
            /\ inv'[n].pageLog = inv[n].pageLog => added = <<>>
            /\ Len(inv'[n].toCrawl) <= 1 + 10 * inv'[n].crawledPages
    ]_vars

\* the crawl fetched a page with more than 10 crawlable links and the
\* frontier holds exactly 10 entries from it
C24_Witness ==
  \E n \in DOMAIN inv :
    /\ inv[n].pc = "crawl"
    /\ Len(inv[n].pageLog) = 1
    /\ inv[n].pageLog[1].ok
    /\ \E p \in GetResp(inv[n].pageLog[1].url) :
         Len(extractCrawlableLinks(p, inv[n].base, inv[n].pageLog[1].url)) > 10
    /\ Len(inv[n].toCrawl) = 10

\* C25: every entry of the frontier and every page the crawl requested is a
\* URL whose hostname is the hostname of the base URL
C25_SameHostOnly ==
  \A n \in DOMAIN inv :
    /\ \A i \in 1..Len(inv[n].toCrawl) :
         IsUrl(inv[n].toCrawl[i].url) /\ Host(inv[n].toCrawl[i].url) = Host(inv[n].base)
    /\ \A i \in 1..Len(inv[n].pageLog) :
         Host(inv[n].pageLog[i].url) = Host(inv[n].base)

\* the crawl of free.test went through a page that links to a policy on
\* sub.free.test: that link was requested for validation, and the frontier
\* holds the other links of the page
C25_Witness ==
  \E n \in DOMAIN inv :
    /\ inv[n].pc = "crawl"
    /\ Host(inv[n].base) = "free.test"
    /\ <<"sub.free.test", "/legal/privacy">> \in Elems(inv[n].fetchLog)
    /\ inv[n].toCrawl # <<>>

\* C26: the crawledPages of every object comprehensiveCrawl returned is the
\* number of pages whose request the run saw answered
C26_CountsCompletedFetches ==
  \A n \in DOMAIN inv :
    \A i \in 1..Len(inv[n].runs) :
      inv[n].runs[i].crawledPages = Len(SelectSeq(inv[n].pageLog, LAMBDA e : e.ok))

\* what bounds the iterations a crawl run has left: the frontier entries to
\* remove, and 11 for each page of the budget not yet used (the entry the
\* request removes and the 10 it may add)
Variant(s) == Len(s.toCrawl) + 11 * (MAX_PAGES_TO_CRAWL - s.crawledPages)

\* C27: a crawl run terminates and returns a result.  While the loop runs
\* its condition holds and the request of the iteration has an outcome;
\* every iteration that stays in the loop removes the head of the
\* frontier and strictly decreases a non-negative variant; the iteration
\* that leaves the loop returns an object to findPrivacyPolicyUrl
C27_CrawlTerminates ==
  [][\A n \in DOMAIN inv :
       inv[n].pc = "crawl" =>
         /\ inv[n].toCrawl # <<>> /\ inv[n].crawledPages < MAX_PAGES_TO_CRAWL
         /\ GetResp(Head(inv[n].toCrawl).url) # {}
         /\ Variant(inv[n]) >= 0
         /\ inv'[n].pc = "crawl" =>
              /\ IsPrefix(Tail(inv[n].toCrawl), inv'[n].toCrawl)
              /\ Variant(inv'[n]) >= 0
              /\ Variant(inv'[n]) < Variant(inv[n])
              /\ inv'[n].runs = inv[n].runs
         /\ inv'[n].pc # "crawl" =>
              /\ Len(inv'[n].runs) = Len(inv[n].runs) + 1
              /\ inv'[n].pc \in {"done", "fallback"}
    ]_vars

\* a crawl run on a host that answers arbitrarily returned after it used up
\* the page budget on requests that failed and requests that succeeded
C27_Witness ==
  \E n \in DOMAIN inv :
    /\ Host(inv[n].base) \in FreeHosts
    /\ Len(inv[n].runs) = 1
    /\ Len(inv[n].pageLog) = MAX_PAGES_TO_CRAWL
    /\ \E i, j \in 1..Len(inv[n].pageLog) : inv[n].pageLog[i].ok /\ ~inv[n].pageLog[j].ok

\* the URLs of the frontier entries, in their order
FrontierUrls(s) == [i \in 1..Len(s.toCrawl) |-> s.toCrawl[i].url]

----------------------------------------------------------------------------
(* Properties of BackgroundService and LRUCache *)

\* C29: a getSiteData that is answered after performComprehensiveOptOut
\* returned success returns no tracker entry recorded before the opt-out
\* was called
C29_OptOutClearsTrackers ==
  bg.resp.afterOptOut => "before" \notin bg.resp.eras

CacheKeysOf(l) == Elems(EntriesKeys(l.cache.map))

\* C30: after every operation the cache holds at most maxEntries entries,
\* each key once; a set of a new key into a full cache removes exactly one
\* key, one whose last successful get or set is the oldest; no other
\* operation removes a key except the delete of that key
C30_CapacityAndLruEviction ==
  [][lru' # lru =>
       LET keys    == CacheKeysOf(lru)
           keysNew == CacheKeysOf(lru')
           o       == lru'.op
       IN /\ lru'.cache.maxEntries = lru.cache.maxEntries
          /\ Len(lru'.cache.map) <= lru.cache.maxEntries
          /\ Cardinality(keysNew) = Len(lru'.cache.map)
          /\ o.name = "set" =>
               IF o.key \notin keys /\ Len(lru.cache.map) >= lru.cache.maxEntries
               THEN \E e \in keys :
                      /\ keysNew = (keys \ {e}) \cup {o.key}
                      /\ \A x \in keys : lru.lastUse[e] <= lru.lastUse[x]
               ELSE keysNew = keys \cup {o.key}
          /\ o.name = "get" => keysNew = keys
          /\ o.name = "delete" => keysNew = keys \ {o.key}
    ]_vars

\* a set into a full cache evicted a key that was not the one inserted
\* first: an earlier get or set had refreshed the older key
C30_Witness ==
  /\ lru.op.name = "set"
  /\ lru.op.evicted # {}
  /\ lru.op.oldest \notin lru.op.evicted
  /\ Len(lru.cache.map) = lru.cache.maxEntries

====
